---- MODULE Spec2Model ----
(***************************************************************************)
(* Model of steamlit.py: the comparable matcher find_comparables and the   *)
(* Streamlit script main (session navigation index, per-run matching, and  *)
(* the batch export loop that flattens every row with its comparables).    *)
(*                                                                         *)
(* A DataFrame is a set of column names plus a sequence of rows; a row of  *)
(* a frame returned by the matcher carries its index label (the position   *)
(* it had in the dataset, 0-based as in pandas).  A record (pandas Series) *)
(* is a function from column names to values.  Numeric cells are integers  *)
(* and text cells are strings; every cell is populated.                    *)
(***************************************************************************)
EXTENDS Integers, Sequences, FiniteSets, TLC

VARIABLES
    uploaded,        \* uploaded_file is not None
    columns,         \* data.columns
    data,            \* data: the rows of the loaded DataFrame, in file order
    failRows,        \* 0-based row indices whose processing raises an Exception
    hasIndex,        \* "current_index" in st.session_state
    current_index,   \* st.session_state.current_index
    pc,              \* position of the script: "idle", "batch", "exported"
    subject_index,   \* loop variable of the batch loop (rows visited so far)
    subject_property,\* the subject record last passed to the matcher
    comparables,     \* the frame last returned by the matcher
    called,          \* the matcher has returned for the current inputs
    exception,       \* exception that ended the last script run, or "none"
    scans,           \* predicate columns compared before the last matcher call ended
    row_errors,      \* row indices reported by st.error in the batch loop
    results_list     \* results_list of the batch loop

vars == <<uploaded, columns, data, failRows, hasIndex, current_index, pc,
          subject_index, subject_property, comparables, called, exception,
          scans, row_errors, results_list>>

(***************************************************************************)
(* Bounds of the model.                                                    *)
(***************************************************************************)
MaxRows == 6        \* longest dataset handed to the matcher harness
MaxFileRows == 6    \* longest uploaded file
MaxFail == 2        \* most rows of one file whose processing raises

(***************************************************************************)
(* Program constants.                                                      *)
(***************************************************************************)
ValueBand == 100000
TopN == 5
CompSlots == 5

AllColumns == {"VPU", "Apartment name", "Property Address", "Market Value-2024",
               "Class", "Owner Name/ LLC Name", "Owner Street Address", "Type",
               "account number"}

\* the nine fields the batch loop copies, for the subject and for each comparable
ReportFields == <<"VPU", "Apartment name", "Property Address", "Market Value-2024",
                  "Class", "Owner Name/ LLC Name", "Owner Street Address", "Type",
                  "account number">>

\* the column looked up by each of the ten predicates, in evaluation order
PredicateColumns == <<"Apartment name", "Property Address", "Owner Name/ LLC Name",
                      "Owner Street Address", "Class", "Type", "Market Value-2024",
                      "Market Value-2024", "VPU", "VPU">>

Abs(x) == IF x < 0 THEN -x ELSE x

Min(a, b) == IF a <= b THEN a ELSE b

Property(name, addr, owner, oaddr, class, type, value, vpu, acct) ==
    ("Apartment name" :> name) @@ ("Property Address" :> addr) @@
    ("Owner Name/ LLC Name" :> owner) @@ ("Owner Street Address" :> oaddr) @@
    ("Class" :> class) @@ ("Type" :> type) @@ ("Market Value-2024" :> value) @@
    ("VPU" :> vpu) @@ ("account number" :> acct)

\* a record restricted to the columns of its frame
Restrict(rec, cols) == [c \in (DOMAIN rec) \cap cols |-> rec[c]]

(***************************************************************************)
(* find_comparables                                                        *)
(***************************************************************************)

\* variant of the filter with the asymmetric ratio rule row.VPU <= 1.5 * subject.VPU
EligibleRatioVariant(subject, row) ==
    /\ row["Apartment name"] # subject["Apartment name"]
    /\ row["Property Address"] # subject["Property Address"]
    /\ row["Owner Name/ LLC Name"] # subject["Owner Name/ LLC Name"]
    /\ row["Owner Street Address"] # subject["Owner Street Address"]
    /\ row["Class"] = subject["Class"]
    /\ row["Type"] = "Apartment"
    /\ row["Market Value-2024"] >= subject["Market Value-2024"] - ValueBand
    /\ row["Market Value-2024"] <= subject["Market Value-2024"] + ValueBand
    /\ 2 * row["VPU"] <= 3 * subject["VPU"]

\* variant of the filter whose identity test passes once one identity field differs
EligibleAnyIdentity(subject, row) ==
    /\ \/ row["Apartment name"] # subject["Apartment name"]
       \/ row["Property Address"] # subject["Property Address"]
       \/ row["Owner Name/ LLC Name"] # subject["Owner Name/ LLC Name"]
       \/ row["Owner Street Address"] # subject["Owner Street Address"]
    /\ row["Class"] = subject["Class"]
    /\ row["Type"] = "Apartment"
    /\ row["Market Value-2024"] >= subject["Market Value-2024"] - ValueBand
    /\ row["Market Value-2024"] <= subject["Market Value-2024"] + ValueBand
    /\ 2 * row["VPU"] >= subject["VPU"]
    /\ row["VPU"] <= subject["VPU"]

\* the boolean mask of lines 20-30 for one row.  subject.VPU / 2 is a true
\* division, so row.VPU >= subject.VPU / 2 is 2 * row.VPU >= subject.VPU.
Eligible(subject, row) ==
    /\ row["Apartment name"] # subject["Apartment name"]
    /\ row["Property Address"] # subject["Property Address"]
    /\ row["Owner Name/ LLC Name"] # subject["Owner Name/ LLC Name"]
    /\ row["Owner Street Address"] # subject["Owner Street Address"]
    /\ row["Class"] = subject["Class"]
    /\ row["Type"] = "Apartment"
    /\ row["Market Value-2024"] >= subject["Market Value-2024"] - ValueBand
    /\ row["Market Value-2024"] <= subject["Market Value-2024"] + ValueBand
    /\ 2 * row["VPU"] >= subject["VPU"]
    /\ row["VPU"] <= subject["VPU"]

\* dataset[mask].copy(): the rows passing the mask, in dataset order, each
\* keeping its index label
RECURSIVE filtered_df(_, _, _)
filtered_df(subject, dataset, k) ==
    IF k > Len(dataset) THEN <<>>
    ELSE (IF Eligible(subject, dataset[k])
          THEN <<[index |-> k - 1, row |-> dataset[k]]>>
          ELSE <<>>) \o filtered_df(subject, dataset, k + 1)

\* lines 38-39: the two derived columns
with_diffs(subject, e) ==
    [index |-> e.index,
     row |-> e.row @@
             ("Market_Value_Diff" :>
                 Abs(e.row["Market Value-2024"] - subject["Market Value-2024"])) @@
             ("VPU_Diff" :> Abs(e.row["VPU"] - subject["VPU"]))]

\* variant of the comparison with VPU_Diff as the leading key
KeyLEByVPU(a, b) ==
    \/ a.row["VPU_Diff"] < b.row["VPU_Diff"]
    \/ /\ a.row["VPU_Diff"] = b.row["VPU_Diff"]
       /\ a.row["Market_Value_Diff"] <= b.row["Market_Value_Diff"]

\* by=['Market_Value_Diff', 'VPU_Diff'], ascending
KeyLE(a, b) ==
    \/ a.row["Market_Value_Diff"] < b.row["Market_Value_Diff"]
    \/ /\ a.row["Market_Value_Diff"] = b.row["Market_Value_Diff"]
       /\ a.row["VPU_Diff"] <= b.row["VPU_Diff"]

RECURSIVE InsertStable(_, _)
InsertStable(s, x) ==
    IF s = <<>> THEN <<x>>
    ELSE IF KeyLE(Head(s), x) THEN <<Head(s)>> \o InsertStable(Tail(s), x)
    ELSE <<x>> \o s

\* DataFrame.sort_values on two keys is a stable lexicographic sort
RECURSIVE sort_values(_)
sort_values(s) ==
    IF Len(s) = 0 THEN s
    ELSE InsertStable(sort_values(SubSeq(s, 1, Len(s) - 1)), s[Len(s)])

\* variant of the truncation that cuts nothing
head_all(s) == s

\* .head(5)
head(s) == SubSeq(s, 1, Min(TopN, Len(s)))

\* position of the first predicate whose column is absent, 0 when none is
FirstMissing(cols) ==
    IF \A k \in 1..Len(PredicateColumns) : PredicateColumns[k] \in cols THEN 0
    ELSE CHOOSE k \in 1..Len(PredicateColumns) :
            /\ PredicateColumns[k] \notin cols
            /\ \A j \in 1..(k - 1) : PredicateColumns[j] \in cols

\* lines 38-43 applied to the filtered copy
sorted_rows(subject, dataset) ==
    LET f == filtered_df(subject, dataset, 1)
    IN head(sort_values([k \in 1..Len(f) |-> with_diffs(subject, f[k])]))

\* The outcome of one call.  A predicate whose column is absent raises KeyError
\* when the column is looked up, after the predicates before it were evaluated
\* over the whole frame.  An empty filter returns pd.DataFrame(): no columns.
find_comparables(subject, cols, dataset) ==
    LET m == FirstMissing(cols) IN
    IF m # 0
    THEN [exc |-> "KeyError", scans |-> m - 1, columns |-> {}, rows |-> <<>>]
    ELSE LET r == sorted_rows(subject, dataset) IN
         [exc |-> "none", scans |-> Len(PredicateColumns),
          columns |-> IF r = <<>> THEN {}
                      ELSE cols \cup {"Market_Value_Diff", "VPU_Diff"},
          rows |-> r]

\* variant without the copy: the derived columns land in the caller's frame
dataset_after_call_aliased(subject, cols, dataset) ==
    IF FirstMissing(cols) # 0 THEN dataset
    ELSE [k \in 1..Len(dataset) |->
            IF Eligible(subject, dataset[k])
            THEN with_diffs(subject, [index |-> k - 1, row |-> dataset[k]]).row
            ELSE dataset[k]]

\* the caller's frame after a call: the filter result is a .copy(), so the
\* assignments of lines 38-39 do not reach the dataset
dataset_after_call(subject, cols, dataset) == dataset

NoFrame == [exc |-> "none", scans |-> 0, columns |-> {}, rows |-> <<>>]

(***************************************************************************)
(* Inputs of the matcher harness.  The subject is one of Subjects; the     *)
(* first row of the dataset is any record of EdgeRows or CoreRows, the     *)
(* later rows are records of CoreRows.  EdgeRows changes one field of an   *)
(* eligible record at a time, up to and past each predicate's boundary.    *)
(***************************************************************************)
BaseValue == 5 * ValueBand

Subjects ==
    {Property("n0", "a0", "o0", "oa0", "A", "Apartment", BaseValue, 4, 100),
     Property("n0", "a0", "o0", "oa0", "A", "Hotel", BaseValue, 5, 100)}

CoreRows ==
    {Property("n1", "a1", "o1", "oa1", "A", "Apartment", BaseValue, 2, 101),
     Property("n2", "a2", "o2", "oa2", "A", "Apartment", BaseValue + 1, 4, 102),
     Property("n3", "a3", "o3", "oa3", "A", "Apartment", BaseValue - 1, 4, 103)}

EdgeRows ==
    Subjects
    \cup {Property("n0", "a5", "o5", "oa5", "A", "Apartment", BaseValue, 4, 105),
          Property("n5", "a0", "o5", "oa5", "A", "Apartment", BaseValue, 4, 106),
          Property("n5", "a5", "o0", "oa5", "A", "Apartment", BaseValue, 4, 107),
          Property("n5", "a5", "o5", "oa0", "A", "Apartment", BaseValue, 4, 108),
          Property("n5", "a5", "o5", "oa5", "B", "Apartment", BaseValue, 4, 109),
          Property("n5", "a5", "o5", "oa5", "A", "Hotel", BaseValue, 4, 110),
          Property("n4", "a4", "o4", "oa4", "A", "Apartment", BaseValue + 50, 3, 104)}
    \cup {Property("n6", "a6", "o6", "oa6", "A", "Apartment", BaseValue + d, 4, 111) :
             d \in {-ValueBand - 1, -ValueBand, ValueBand, ValueBand + 1, 150000}}
    \cup {Property("n7", "a7", "o7", "oa7", "A", "Apartment", BaseValue, v, 112) :
             v \in {1, 2, 3, 5, 6}}

NoRecord == <<>>

MatchInit ==
    /\ uploaded = FALSE
    /\ columns = AllColumns
    /\ data = <<>>
    /\ failRows = {}
    /\ hasIndex = FALSE
    /\ current_index = 0
    /\ pc = "idle"
    /\ subject_index = 0
    /\ subject_property \in Subjects
    /\ comparables = NoFrame
    /\ called = FALSE
    /\ exception = "none"
    /\ scans = 0
    /\ row_errors = <<>>
    /\ results_list = <<>>

\* the caller appends one more record to the dataset it is about to pass
AddRow(r) ==
    /\ ~called
    /\ Len(data) < MaxRows
    /\ data' = Append(data, r)
    /\ UNCHANGED <<uploaded, columns, failRows, hasIndex, current_index, pc,
                   subject_index, subject_property, comparables, called,
                   exception, scans, row_errors, results_list>>

\* comparables = find_comparables(subject_property, data)
Call ==
    /\ LET out == find_comparables(subject_property, columns, data) IN
        /\ comparables' = out
        /\ exception' = out.exc
        /\ scans' = out.scans
    /\ data' = dataset_after_call(subject_property, columns, data)
    /\ called' = TRUE
    /\ UNCHANGED <<uploaded, columns, failRows, hasIndex, current_index, pc,
                   subject_index, subject_property, row_errors, results_list>>

MatchNext ==
    \/ \E r \in (IF Len(data) = 0 THEN EdgeRows \cup CoreRows ELSE CoreRows) : AddRow(r)
    \/ Call

SpecMatch == MatchInit /\ [][MatchNext]_vars

(***************************************************************************)
(* main: the Streamlit script.  Every user event reruns the script from    *)
(* the top; st.session_state survives between runs, locals do not.         *)
(***************************************************************************)

\* a dict value: None is the empty tuple, a cell v is the one-tuple <<v>>
None == <<>>

Some(v) == <<v>>

\* the keys of result_entry: <<0, f>> is the subject's field f and <<K, f>>
\* is the key 'compK f'
FlatKeys == {<<p, ReportFields[j]>> : p \in 0..CompSlots, j \in 1..Len(ReportFields)}

\* variant of the flattening without the else branch of lines 147-157
result_entry_ragged(subject, cols, comp) ==
    [key \in {<<p, ReportFields[j]>> : p \in 0..Min(CompSlots, Len(comp.rows)),
                                        j \in 1..Len(ReportFields)} |->
        IF key[1] = 0
        THEN (IF key[2] \in cols THEN Some(subject[key[2]]) ELSE None)
        ELSE (IF key[2] \in comp.columns THEN Some(comp.rows[key[1]].row[key[2]])
              ELSE None)]

\* lines 120-157: the flattened row of one subject and its comparables
result_entry(subject, cols, comp) ==
    [key \in FlatKeys |->
        IF key[1] = 0
        THEN (IF key[2] \in cols THEN Some(subject[key[2]]) ELSE None)
        ELSE IF key[1] - 1 < Len(comp.rows)
        THEN (IF key[2] \in comp.columns THEN Some(comp.rows[key[1]].row[key[2]])
              ELSE None)
        ELSE None]

\* variant of the except branch that keeps the part of the entry built so far
results_on_error_partial(results, subject, cols) ==
    Append(results, [key \in {k \in FlatKeys : k[1] = 0} |->
                        IF key[2] \in cols THEN Some(subject[key[2]]) ELSE None])

\* lines 160-162: the except branch reports the row and appends nothing
results_on_error(results, subject, cols) == results

(***************************************************************************)
(* Uploaded files.  A file holds the first n records of a fixed portfolio, *)
(* lacks at most one column, and names the rows whose processing raises.   *)
(***************************************************************************)
Label == <<"1", "2", "3", "4", "5", "6", "7", "8", "9">>

\* values and VPUs ascend with the row, so the candidates of a row are the
\* rows before it; rows 2 and 7 have the same owner
FileRow(i) ==
    Property(Label[i], Label[i], IF i = 7 THEN Label[2] ELSE Label[i], Label[i],
             "A", "Apartment", BaseValue + 10000 * i, 10 + i, 1000 + i)

Files ==
    {[rows |-> n, drop |-> {}, fail |-> F] :
        n \in 0..MaxFileRows,
        F \in {G \in SUBSET (0..(MaxFileRows - 1)) : Cardinality(G) <= MaxFail}}
    \cup {[rows |-> n, drop |-> {c}, fail |-> {}] : n \in 0..MaxFileRows, c \in AllColumns}

\* pd.read_csv(uploaded_file)
read_csv(f) ==
    [columns |-> AllColumns \ f.drop,
     rows |-> [i \in 1..f.rows |-> Restrict(FileRow(i), AllColumns \ f.drop)]]

Idle == pc \in {"idle", "exported"}

Init ==
    /\ uploaded = FALSE
    /\ columns = {}
    /\ data = <<>>
    /\ failRows = {}
    /\ hasIndex = FALSE
    /\ current_index = 0
    /\ pc = "idle"
    /\ subject_index = 0
    /\ subject_property = NoRecord
    /\ comparables = NoFrame
    /\ called = FALSE
    /\ exception = "none"
    /\ scans = 0
    /\ row_errors = <<>>
    /\ results_list = <<>>

\* lines 66-106 of one script run over the frame (cols, d) in which `button`
\* is the button that returned True ("none" when the run was not started by
\* a button).  An exception at line 85 or 92 is not caught and ends the run.
Run(cols, d, fails, button) ==
    LET idx0 == IF hasIndex THEN current_index ELSE 0
        idx == IF button = "Previous" /\ idx0 > 0 THEN idx0 - 1
               ELSE IF button = "Next" /\ idx0 < Len(d) - 1 THEN idx0 + 1
               ELSE idx0
    IN
    /\ hasIndex' = TRUE
    /\ current_index' = idx
    /\ subject_index' = 0
    /\ row_errors' = <<>>
    /\ results_list' = <<>>
    /\ IF idx >= Len(d)
       THEN /\ exception' = "IndexError"
            /\ subject_property' = NoRecord
            /\ comparables' = NoFrame
            /\ called' = FALSE
            /\ scans' = 0
            /\ pc' = "idle"
       ELSE IF idx \in fails
       THEN /\ exception' = "Exception"
            /\ subject_property' = d[idx + 1]
            /\ comparables' = NoFrame
            /\ called' = TRUE
            /\ scans' = 0
            /\ pc' = "idle"
       ELSE LET out == find_comparables(d[idx + 1], cols, d) IN
            /\ exception' = out.exc
            /\ subject_property' = d[idx + 1]
            /\ comparables' = out
            /\ called' = TRUE
            /\ scans' = out.scans
            /\ pc' = IF button = "Download Results" /\ out.exc = "none"
                     THEN "batch" ELSE "idle"

\* the user picks a file in st.file_uploader
Upload(f) ==
    /\ Idle
    /\ \A i \in f.fail : i < f.rows
    /\ LET df == read_csv(f) IN
       /\ uploaded' = TRUE
       /\ columns' = df.columns
       /\ data' = df.rows
       /\ failRows' = f.fail
       /\ Run(df.columns, df.rows, f.fail, "none")

\* the user clears the uploader: uploaded_file is None and the run does nothing
Remove ==
    /\ Idle
    /\ uploaded
    /\ uploaded' = FALSE
    /\ columns' = {}
    /\ data' = <<>>
    /\ failRows' = {}
    /\ pc' = "idle"
    /\ subject_index' = 0
    /\ subject_property' = NoRecord
    /\ comparables' = NoFrame
    /\ called' = FALSE
    /\ exception' = "none"
    /\ scans' = 0
    /\ row_errors' = <<>>
    /\ results_list' = <<>>
    /\ UNCHANGED <<hasIndex, current_index>>

PreviousButton ==
    /\ Idle
    /\ uploaded
    /\ Run(columns, data, failRows, "Previous")
    /\ UNCHANGED <<uploaded, columns, data, failRows>>

NextButton ==
    /\ Idle
    /\ uploaded
    /\ Run(columns, data, failRows, "Next")
    /\ UNCHANGED <<uploaded, columns, data, failRows>>

\* "Download Results" is drawn at line 106, so only by a run that got there
DownloadResults ==
    /\ Idle
    /\ uploaded
    /\ exception = "none"
    /\ Run(columns, data, failRows, "Download Results")
    /\ UNCHANGED <<uploaded, columns, data, failRows>>

\* one iteration of the loop of lines 111-162
BatchStep ==
    /\ pc = "batch"
    /\ subject_index < Len(data)
    /\ LET subj == data[subject_index + 1]
           raised == subject_index \in failRows \/ FirstMissing(columns) # 0
           out == find_comparables(subj, columns, data)
       IN
       /\ subject_property' = subj
       /\ IF raised
          THEN /\ row_errors' = Append(row_errors, subject_index)
               /\ results_list' = results_on_error(results_list, subj, columns)
               /\ UNCHANGED comparables
          ELSE /\ comparables' = out
               /\ results_list' = Append(results_list, result_entry(subj, columns, out))
               /\ UNCHANGED row_errors
    /\ subject_index' = subject_index + 1
    /\ UNCHANGED <<uploaded, columns, data, failRows, hasIndex, current_index, pc,
                   called, exception, scans>>

\* lines 165-179: the loop is over, the table is built and offered for download
BatchDone ==
    /\ pc = "batch"
    /\ subject_index = Len(data)
    /\ pc' = "exported"
    /\ UNCHANGED <<uploaded, columns, data, failRows, hasIndex, current_index,
                   subject_index, subject_property, comparables, called, exception,
                   scans, row_errors, results_list>>

Next ==
    \/ \E f \in Files : Upload(f)
    \/ Remove
    \/ PreviousButton
    \/ NextButton
    \/ DownloadResults
    \/ BatchStep
    \/ BatchDone

Spec == Init /\ [][Next]_vars

(***************************************************************************)
(* Properties of the matcher, stated on the frame a call has returned.     *)
(***************************************************************************)
Returned == comparables.rows

\* the original record of the K-th returned row
ReturnedRecord(K) == Restrict(Returned[K].row, columns)

ValueDiff(c) == Abs(c["Market Value-2024"] - subject_property["Market Value-2024"])

RatioDiff(c) == Abs(c["VPU"] - subject_property["VPU"])

DiffersInIdentity(c) ==
    /\ c["Apartment name"] # subject_property["Apartment name"]
    /\ c["Property Address"] # subject_property["Property Address"]
    /\ c["Owner Name/ LLC Name"] # subject_property["Owner Name/ LLC Name"]
    /\ c["Owner Street Address"] # subject_property["Owner Street Address"]

InBands(c) ==
    /\ c["Class"] = subject_property["Class"]
    /\ c["Type"] = "Apartment"
    /\ c["Market Value-2024"] >= subject_property["Market Value-2024"] - 100000
    /\ c["Market Value-2024"] <= subject_property["Market Value-2024"] + 100000
    /\ subject_property["VPU"] <= 2 * c["VPU"]
    /\ c["VPU"] <= subject_property["VPU"]

\* dataset positions (1-based) of the candidates passing every predicate
EligiblePositions == {k \in 1..Len(data) : DiffersInIdentity(data[k]) /\ InBands(data[k])}

\* (value_diff, ratio_diff) of a is strictly below that of b
KeyLess2(a, b) ==
    \/ ValueDiff(a) < ValueDiff(b)
    \/ ValueDiff(a) = ValueDiff(b) /\ RatioDiff(a) < RatioDiff(b)

\* (combined, value_diff, ratio_diff) of a is strictly below that of b
KeyLess3(a, b) ==
    \/ ValueDiff(a) + RatioDiff(a) < ValueDiff(b) + RatioDiff(b)
    \/ /\ ValueDiff(a) + RatioDiff(a) = ValueDiff(b) + RatioDiff(b)
       /\ KeyLess2(a, b)

\* C1: every record returned by find_comparables is a record of the dataset
\* with the subject's Class, Type 'Apartment', a market value within 100000 of
\* the subject's and a VPU between half the subject's VPU and the subject's VPU.
C1_ReturnedAreEligible ==
    called =>
        \A K \in 1..Len(Returned) :
            /\ Returned[K].index + 1 \in 1..Len(data)
            /\ ReturnedRecord(K) = data[Returned[K].index + 1]
            /\ InBands(ReturnedRecord(K))

\* a call returned records although the dataset's first row fails a band: its
\* value is 150000 away, or its VPU is above the subject's or below half of it
C1_Witness ==
    /\ called
    /\ Len(Returned) >= 2
    /\ Len(data) >= 3
    /\ \/ ValueDiff(data[1]) = 150000
       \/ data[1]["VPU"] > subject_property["VPU"]
       \/ 2 * data[1]["VPU"] < subject_property["VPU"]
    /\ DiffersInIdentity(data[1])

\* C2: no record returned by find_comparables shares its name, its property
\* address, its owner name or its owner address with the subject.
C2_SelfExclusion ==
    called => \A K \in 1..Len(Returned) : DiffersInIdentity(ReturnedRecord(K))

\* a call returned records from a dataset whose first row is the subject itself
C2_Witness ==
    /\ called
    /\ Len(Returned) >= 1
    /\ Len(data) >= 2
    /\ data[1] = subject_property
    /\ InBands(data[1])

\* C3: with n eligible candidates find_comparables returns min(5, n) distinct
\* candidates, and no eligible candidate left out has a strictly smaller
\* (value_diff, ratio_diff) key than a returned one.
C3_TopFive ==
    called =>
        LET kept == {Returned[K].index + 1 : K \in 1..Len(Returned)} IN
        /\ Len(Returned) = Min(5, Cardinality(EligiblePositions))
        /\ Cardinality(kept) = Len(Returned)
        /\ kept \subseteq EligiblePositions
        /\ \A j \in EligiblePositions \ kept :
              \A k \in kept : ~KeyLess2(data[j], data[k])

\* six candidates are eligible, five are returned, and the one left out has a
\* strictly larger key than every returned one
C3_Witness ==
    /\ called
    /\ Cardinality(EligiblePositions) > 5
    /\ Len(Returned) = 5
    /\ \E j \in EligiblePositions :
          \A K \in 1..Len(Returned) :
              /\ Returned[K].index + 1 # j
              /\ KeyLess2(ReturnedRecord(K), data[j])

\* C4 as stated: the returned sequence ascends in (combined, value_diff, ratio_diff).
C4_SortedByCombined ==
    called =>
        \A K \in 1..(Len(Returned) - 1) :
            ~KeyLess3(ReturnedRecord(K + 1), ReturnedRecord(K))

\* C4 as the code has it: the returned sequence ascends in (value_diff, ratio_diff).
C4_SortedByValueThenRatio ==
    called =>
        \A K \in 1..(Len(Returned) - 1) :
            ~KeyLess2(ReturnedRecord(K + 1), ReturnedRecord(K))

\* two adjacent returned records ascend strictly in (value_diff, ratio_diff)
\* while their combined difference descends
C4_Witness ==
    /\ called
    /\ \E K \in 1..(Len(Returned) - 1) :
          /\ KeyLess2(ReturnedRecord(K), ReturnedRecord(K + 1))
          /\ KeyLess3(ReturnedRecord(K + 1), ReturnedRecord(K))

\* C5 as stated: every returned record has exactly the fields of the dataset.
C5_OnlyOriginalFields ==
    called => \A K \in 1..Len(Returned) : DOMAIN Returned[K].row = columns

\* returned records whose keys tie appear in dataset order
TiesInDatasetOrder ==
    \A K \in 1..(Len(Returned) - 1) :
        (/\ ~KeyLess2(ReturnedRecord(K), ReturnedRecord(K + 1))
         /\ ~KeyLess2(ReturnedRecord(K + 1), ReturnedRecord(K)))
        => Returned[K].index < Returned[K + 1].index

NineFields == {"VPU", "Apartment name", "Property Address", "Market Value-2024", "Class",
               "Owner Name/ LLC Name", "Owner Street Address", "Type", "account number"}

\* the batch loop has just appended the row of subject_property
RowAppended ==
    /\ pc = "batch"
    /\ subject_index > 0
    /\ subject_index - 1 \notin failRows
    /\ Len(results_list) > 0

\* C6: whatever the number k of comparables, the flattened row has the 9
\* subject fields plus 9 fields under each of comp1..comp5; the compK fields
\* hold the K-th comparable's fields for K <= k and are null for K > k.
C6_FlattenedRow ==
    /\ \A j \in 1..Len(results_list) :
          /\ DOMAIN results_list[j] = (0..5) \X NineFields
          /\ Cardinality(DOMAIN results_list[j]) = 54
    /\ RowAppended =>
          LET e == results_list[Len(results_list)]
              k == Len(Returned)
          IN
          /\ k <= 5
          /\ \A f \in NineFields :
                /\ e[<<0, f>>] = IF f \in columns THEN <<subject_property[f]>> ELSE <<>>
                /\ \A K \in 1..5 :
                      e[<<K, f>>] = IF K <= k /\ f \in columns
                                    THEN <<Returned[K].row[f]>>
                                    ELSE <<>>

\* a finished export holds a row with no comparable at all, a row with two
\* comparables and a row with five
C6_Witness ==
    /\ pc = "exported"
    /\ \E a, b, c \in 1..Len(results_list) :
          /\ \A K \in 1..5 : \A f \in NineFields : results_list[a][<<K, f>>] = <<>>
          /\ results_list[b][<<2, "VPU">>] # <<>>
          /\ results_list[b][<<3, "VPU">>] = <<>>
          /\ \A f \in NineFields : results_list[c][<<5, f>>] # <<>>

\* a column read by the predicates is absent from the loaded dataset
PredicateColumnMissing ==
    \E j \in 1..Len(PredicateColumns) : PredicateColumns[j] \notin columns

\* C8 as stated: over a dataset lacking a predicate column, matching fails with
\* a SchemaError raised before any row is scanned, and the batch loop reports
\* no per-row error.
C8_SchemaCheckFirst ==
    (uploaded /\ called /\ PredicateColumnMissing) =>
        /\ exception = "SchemaError"
        /\ scans = 0
        /\ row_errors = <<>>

\* the 0-based indices below n that are not in F, ascending
RECURSIVE IndicesNotIn(_, _)
IndicesNotIn(n, F) ==
    IF n = 0 THEN <<>>
    ELSE IndicesNotIn(n - 1, F) \o (IF n - 1 \in F THEN <<>> ELSE <<n - 1>>)

\* C9: whichever rows fail, the batch loop visits the rows in dataset order,
\* one more at each step, and ends once every row is visited (while it runs
\* its position is at most the number of rows, so the guard of its next step
\* or of its end holds); at every point, and when it has ended, the table
\* holds exactly one complete flattened row for each visited row that did not
\* fail, in dataset order, and nothing for a failed row, each of which was
\* reported.
C9_BatchCompletes ==
    (pc \in {"batch", "exported"}) =>
        LET ok == IndicesNotIn(subject_index, failRows)
            bad == IndicesNotIn(subject_index, (0..(Len(data) - 1)) \ failRows)
        IN
        /\ subject_index <= Len(data)
        /\ pc = "exported" => subject_index = Len(data)
        /\ Len(row_errors) + Len(results_list) = subject_index
        /\ row_errors = bad
        /\ Len(results_list) = Len(ok)
        /\ \A j \in 1..Len(ok) :
              /\ DOMAIN results_list[j] = (0..5) \X NineFields
              /\ \A f \in NineFields :
                    results_list[j][<<0, f>>] =
                        IF f \in columns THEN <<data[ok[j] + 1][f]>> ELSE <<>>

\* an export ended in which two rows failed and a row between them did not
C9_Witness ==
    /\ pc = "exported"
    /\ Len(row_errors) = 2
    /\ row_errors[2] > row_errors[1] + 1
    /\ Len(results_list) >= 3

\* C10 as stated: after any uploads and Previous/Next presses, whenever a
\* dataset with a record to select is loaded, the navigation index is a valid
\* index of it: 0 <= current_index <= len(data) - 1.
C10_IndexValid ==
    (uploaded /\ hasIndex /\ Len(data) > 0) =>
        (0 <= current_index /\ current_index <= Len(data) - 1)

====
